---- MODULE Spec2Model ----
(***************************************************************************)
(* TMCC accessory -> WLED bridge (src/tmcc_wled.py).                       *)
(*                                                                         *)
(* The frame decoder parse_tmcc_switch_or_accessory, the controller        *)
(* WLEDController (handle_packet, apply_action) run by the one dispatch    *)
(* caller, and the DaylightCycle simulator (start, stop, and the _loop     *)
(* threads start launches).  Every device call WLEDClient.post_state makes *)
(* is one entry of posts, the device's view of the bridge.                 *)
(*                                                                         *)
(* Python strings are sequences of one-character strings, Optional values  *)
(* are sequences of length at most one, None is the empty sequence where   *)
(* the value is a string and the record Rejected where it is a dict.       *)
(* Wall-clock waits (join(timeout=2), time.sleep, the HTTP timeout) are    *)
(* untimed: each may end at any point of an interleaving.                  *)
(***************************************************************************)
EXTENDS Integers, Sequences, FiniteSets, TLC

VARIABLES
    \* configuration, fixed by WLEDController.__init__
    daylight,        \* self.daylight is not None
    mapping,         \* self.mapping: (address, data_field) -> action string
    pattern_presets, \* self.pattern_presets
    \* WLEDController
    pattern_index,   \* self.pattern_index
    \* DaylightCycle
    running,         \* self._running
    thread,          \* self._thread: 0 is None, else the thread last launched
    cycle_count,     \* self._cycle_count
    start_time,      \* self._start_time
    \* the _loop threads
    loopPc,          \* each thread's position in _loop
    loopElapsed,     \* each thread's local elapsed, in 1/24 of a time unit
    firstTick,       \* history: the thread has set _start_time, not yet posted a tick
    tickCycle,       \* history: int(elapsed // cycle_duration) of the thread's last tick
    \* the dispatch caller
    callerPc,        \* its position in handle_packet / apply_action / start / stop
    callerAction,    \* the action apply_action is running (<<>>: the constructor)
    lastCall,        \* how the last handle_packet call ended (see HandleOutcome)
    ranAtEntry,      \* history: _running when the running apply_action was entered
    callPosted,      \* history: the call the caller is in (or was last in) has posted
    lastPostOk,      \* the boolean post_state returned to the caller last (<<>>: none yet)
    ticksAfterStop,  \* history: each thread's tick posts made with _running False
    \* the device and the clock
    posts,           \* the last MaxPosts payloads post_state sent, newest last
    postCount,       \* the number of post_state calls so far, modulo PostCountMod
    now,             \* time.time()
    \* the decoder on its own (SpecDecode)
    packet,          \* the bytes handed to parse_tmcc_switch_or_accessory
    cmd_type,        \* its cmd_type argument: <<>> is None, <<v>> is v
    parsed,          \* what it returned
    decodePc,        \* "input" before the call, "done" after it
    \* the sky colour and the segments on their own (SpecSky)
    keyframes,       \* self.keyframes
    virtual_hour,    \* the virtual hour <<num, den>>, the rational num / den
    moon_start,      \* self.moon_start
    moon_length,     \* self.moon_length
    sky_color,       \* what _get_sky_color returned (<<>> before the call)
    segments,        \* what _build_segments returned (<<>> before the call)
    skyPc,           \* "input", "sky" (colour resolved), "done" (segments built)
    \* WLEDClient.post_state on its own (SpecPost)
    postPayload,     \* its payload argument
    postFault,       \* the call of the try block that raises ("none": none does)
    postStatus,      \* resp.status of the response, if one arrives
    conn,            \* the connection: "unbound", "idle", "open" or "closed"
    postPc,          \* the position in post_state
    postRet          \* "none" while it runs, then "true", "false" or "raised"

vars == << daylight, mapping, pattern_presets, pattern_index, running, thread,
           cycle_count, start_time, loopPc, loopElapsed, firstTick, tickCycle,
           callerPc,
           callerAction,
           lastCall, ranAtEntry, callPosted, lastPostOk, ticksAfterStop, posts,
           postCount, now, packet, cmd_type, parsed, decodePc,
           keyframes, virtual_hour, moon_start, moon_length, sky_color, segments,
           skyPc, postPayload, postFault, postStatus, conn, postPc, postRet >>

---------------------------------------------------------------------------
(* Bounds of the model. *)

\* loop threads that can be alive at once (start() waits for a free slot)
MaxThreads == 2
\* the device keeps this many of the most recent posts
MaxPosts == 2
\* the post counter wraps at this value
PostCountMod == 2
\* the longest packet handed to the decoder
MaxPacketLen == 4
\* the longest argument of a "color:" action
MaxArgLen == 7
\* cycle_duration_sec, in time units of the model's clock
CycleDuration == 4
\* "brightness:<v>" is tried for every v in -MaxBrightness..MaxBrightness
MaxBrightness == 300
\* the virtual hours tried are the multiples of 1 / HourDen in 0..24
HourDen == 4
\* the clock stops at this reading, in time units
MaxTime == 4

Threads == 1..MaxThreads

---------------------------------------------------------------------------
(* Integer bit operations on naturals, as Python's &, |, >> and <<. *)

RECURSIVE BitAnd(_, _)
BitAnd(a, b) ==
    IF a = 0 \/ b = 0 THEN 0
    ELSE (IF a % 2 = 1 /\ b % 2 = 1 THEN 1 ELSE 0) + 2 * BitAnd(a \div 2, b \div 2)

RECURSIVE BitOr(_, _)
BitOr(a, b) ==
    IF a = 0 THEN b
    ELSE IF b = 0 THEN a
    ELSE (IF a % 2 = 1 \/ b % 2 = 1 THEN 1 ELSE 0) + 2 * BitOr(a \div 2, b \div 2)

RECURSIVE ShiftR(_, _)
ShiftR(a, n) == IF n = 0 THEN a ELSE ShiftR(a \div 2, n - 1)

RECURSIVE ShiftL(_, _)
ShiftL(a, n) == IF n = 0 THEN a ELSE ShiftL(a * 2, n - 1)

---------------------------------------------------------------------------
(* parse_tmcc_switch_or_accessory *)

\* the 0xFE first byte of every TMCC packet
Sentinel == 254

\* the None the parser returns
Rejected == [none |-> TRUE]

\* (variant) the override is ignored and byte 1 always read
EffectiveCmdTypeNoOverride(pkt, ct) == BitAnd(ShiftR(pkt[2], 6), 3)

\* the cmd_type the parser tests: the argument, or bits 7-6 of byte 1
EffectiveCmdType(pkt, ct) ==
    IF ct = <<>> THEN BitAnd(ShiftR(pkt[2], 6), 3) ELSE ct[1]

\* (variant) the low address bit of byte 2 is dropped
ParseAddressNoLowBit(pkt) == ShiftL(BitAnd(pkt[2], 63), 1)

\* the address, with the low bit taken from byte 2
ParseAddress(pkt) ==
    BitOr(ShiftL(BitAnd(pkt[2], 63), 1), ShiftR(BitAnd(pkt[3], 128), 7))

\* the whole parser (Python indexes from 0, the model from 1)
ParsePacket(pkt, ct) ==
    IF Len(pkt) # 3 \/ pkt[1] # Sentinel THEN Rejected
    ELSE IF EffectiveCmdType(pkt, ct) \notin {2, 3} THEN Rejected
    ELSE [ address    |-> ParseAddress(pkt),
           cmd_field  |-> ShiftR(BitAnd(pkt[3], 96), 5),
           data_field |-> BitAnd(pkt[3], 31),
           cmd_type   |-> EffectiveCmdType(pkt, ct) ]

---------------------------------------------------------------------------
(* DaylightCycle: sky colour and segments.  A virtual hour is the rational *)
(* num / den (den > 0); float rounding is not modelled.                    *)

\* DaylightCycle.DEFAULT_KEYFRAMES
DEFAULT_KEYFRAMES ==
    ( 0  :> <<40, 40, 100>>   @@ 5  :> <<50, 50, 120>>   @@
      6  :> <<255, 150, 80>>  @@ 8  :> <<255, 220, 180>> @@
      12 :> <<255, 255, 240>> @@ 16 :> <<255, 240, 220>> @@
      18 :> <<255, 140, 60>>  @@ 20 :> <<80, 60, 120>>   @@
      21 :> <<60, 60, 130>>   @@ 24 :> <<40, 40, 100>> )

\* constructor defaults WLEDController passes on
LedCount == 100
MoonStart == 0
MoonLength == 5

\* sorted(): the elements of a finite set of integers, ascending
RECURSIVE Sorted(_)
Sorted(S) ==
    IF S = {} THEN <<>>
    ELSE LET m == CHOOSE x \in S : \A y \in S : x <= y
         IN  <<m>> \o Sorted(S \ {m})

\* int() of a rational n / d (d > 0): truncation toward zero
Trunc(n, d) == IF n >= 0 THEN n \div d ELSE -((-n) \div d)

\* _lerp(a, b, t) with t = tn / td
Lerp(a, b, tn, td) == Trunc(a * td + (b - a) * tn, td)

\* _lerp_color
LerpColor(c1, c2, tn, td) ==
    << Lerp(c1[1], c2[1], tn, td), Lerp(c1[2], c2[2], tn, td),
       Lerp(c1[3], c2[3], tn, td) >>

\* (variant) both comparisons strict: a keyframe hour is bracketed by its
\* neighbours
RECURSIVE BracketStrict(_, _, _, _, _, _)
BracketStrict(hours, i, lower, upper, num, den) ==
    IF i > Len(hours) THEN <<lower, upper>>
    ELSE LET h   == hours[i]
             low == IF h * den < num THEN h ELSE lower
         IN  IF h * den > num THEN <<low, h>>
             ELSE BracketStrict(hours, i + 1, low, upper, num, den)

\* the for loop of _get_sky_color from index i on: <<lower_h, upper_h>>
RECURSIVE Bracket(_, _, _, _, _, _)
Bracket(hours, i, lower, upper, num, den) ==
    IF i > Len(hours) THEN <<lower, upper>>
    ELSE LET h   == hours[i]
             low == IF h * den <= num THEN h ELSE lower
         IN  IF h * den >= num THEN <<low, h>>
             ELSE Bracket(hours, i + 1, low, upper, num, den)

\* (variant) _get_sky_color with the strict comparisons
GetSkyColorStrict(kf, num, den) ==
    LET hours == Sorted(DOMAIN kf)
        b     == BracketStrict(hours, 1, hours[1], hours[Len(hours)], num, den)
    IN  IF b[1] = b[2] THEN kf[b[1]]
        ELSE LerpColor(kf[b[1]], kf[b[2]], num - b[1] * den, (b[2] - b[1]) * den)

\* _get_sky_color(num / den) over the keyframe table kf
GetSkyColor(kf, num, den) ==
    LET hours == Sorted(DOMAIN kf)
        b     == Bracket(hours, 1, hours[1], hours[Len(hours)], num, den)
    IN  IF b[1] = b[2] THEN kf[b[1]]
        ELSE LerpColor(kf[b[1]], kf[b[2]], num - b[1] * den, (b[2] - b[1]) * den)

\* (variant) hour 5 counted as night
IsNightThroughFive(num, den) == num <= 5 * den \/ num >= 21 * den

\* _is_night
IsNight(num, den) == num < 5 * den \/ num >= 21 * den

\* _build_segments
BuildSegments(sky, num, den, ledCount, moonStart, moonLength) ==
    LET main == [ id |-> 0, start |-> 0, stop |-> ledCount, col |-> <<sky>>,
                  fx |-> 0, on |-> TRUE, sel |-> TRUE ]
        moon_color == IF IsNight(num, den) /\ moonLength > 0
                      THEN <<180, 180, 200>> ELSE sky
    IN  IF moonLength > 0
        THEN << main,
                [ id |-> 1, start |-> moonStart, stop |-> moonStart + moonLength,
                  col |-> <<moon_color>>, fx |-> 0, on |-> TRUE ] >>
        ELSE << main >>

---------------------------------------------------------------------------
(* The payloads handed to WLEDClient.post_state. *)

\* start(): the baseline, segment 0 over the whole strip
BaselinePayload ==
    [ on |-> TRUE, mainseg |-> 0,
      seg |-> << [ id |-> 0, start |-> 0, stop |-> LedCount, on |-> TRUE ] >> ]

\* _loop: one tick, for elapsed e24 / 24 time units
TickPayload(e24) ==
    LET num == e24 % (24 * CycleDuration)
    IN  [ on |-> TRUE,
          seg |-> BuildSegments(GetSkyColor(DEFAULT_KEYFRAMES, num, CycleDuration),
                                num, CycleDuration, LedCount, MoonStart, MoonLength) ]

OnPayload == [ on |-> TRUE ]
OffPayload == [ on |-> FALSE ]
WhitePayload ==
    [ on |-> TRUE, bri |-> 255, seg |-> << [ id |-> 0, col |-> << <<255, 255, 255>> >> ] >> ]
ColorPayload(r, g, b) == [ seg |-> << [ id |-> 0, col |-> << <<r, g, b>> >> ] >> ]
BrightnessPayload(v) == [ bri |-> v ]
PresetPayload(id) == [ ps |-> id ]

IsBaseline(p) == "mainseg" \in DOMAIN p
IsTick(p) == DOMAIN p = {"on", "seg"}
IsOff(p) == p = OffPayload
IsWhite(p) == p = WhitePayload

---------------------------------------------------------------------------
(* Python string operations on sequences of characters. *)

\* the action strings apply_action compares with
A_on == <<"o", "n">>
A_off == <<"o", "f", "f">>
A_full_white == <<"f", "u", "l", "l", "_", "w", "h", "i", "t", "e">>
A_daylight_start ==
    <<"d", "a", "y", "l", "i", "g", "h", "t", "_", "s", "t", "a", "r", "t">>
A_daylight_stop ==
    <<"d", "a", "y", "l", "i", "g", "h", "t", "_", "s", "t", "o", "p">>
A_cycle == <<"c", "y", "c", "l", "e">>
P_color == <<"c", "o", "l", "o", "r", ":">>
P_brightness == <<"b", "r", "i", "g", "h", "t", "n", "e", "s", "s", ":">>
P_preset == <<"p", "r", "e", "s", "e", "t", ":">>

\* str.startswith
StartsWith(s, prefix) ==
    Len(s) >= Len(prefix) /\ SubSeq(s, 1, Len(prefix)) = prefix

\* s.split(":", 1)[1] of a string that holds a ":"
AfterColon(s) ==
    LET i == CHOOSE k \in 1..Len(s) :
                 s[k] = ":" /\ \A j \in 1..(k - 1) : s[j] # ":"
    IN  SubSeq(s, i + 1, Len(s))

\* s.lstrip("#")
RECURSIVE LStripHash(_)
LStripHash(s) ==
    IF s # <<>> /\ s[1] = "#" THEN LStripHash(Tail(s)) ELSE s

\* the value of a digit character
DigitValue ==
    ( "0" :> 0 @@ "1" :> 1 @@ "2" :> 2 @@ "3" :> 3 @@ "4" :> 4 @@ "5" :> 5 @@
      "6" :> 6 @@ "7" :> 7 @@ "8" :> 8 @@ "9" :> 9 @@
      "a" :> 10 @@ "b" :> 11 @@ "c" :> 12 @@ "d" :> 13 @@ "e" :> 14 @@ "f" :> 15 @@
      "A" :> 10 @@ "B" :> 11 @@ "C" :> 12 @@ "D" :> 13 @@ "E" :> 14 @@ "F" :> 15 )

IsDigit(c, base) == c \in DOMAIN DigitValue /\ DigitValue[c] < base

RECURSIVE DigitsValue(_, _)
DigitsValue(s, base) ==
    IF s = <<>> THEN 0
    ELSE DigitsValue(SubSeq(s, 1, Len(s) - 1), base) * base + DigitValue[s[Len(s)]]

\* int(s, base): <<v>>, or <<>> where Python raises ValueError.  An optional
\* sign, then one or more digits; surrounding whitespace, "_" between digits
\* and a "0x" prefix are also legal in Python and are kept out of the
\* arguments the model draws (ColorChars).
ParseInt(s, base) ==
    LET signed == s # <<>> /\ s[1] \in {"+", "-"}
        digits == IF signed THEN Tail(s) ELSE s
    IN  IF digits = <<>> \/ \E i \in 1..Len(digits) : ~IsDigit(digits[i], base)
        THEN <<>>
        ELSE IF signed /\ s[1] = "-" THEN << -DigitsValue(digits, base) >>
        ELSE << DigitsValue(digits, base) >>

Min(a, b) == IF a <= b THEN a ELSE b
Max(a, b) == IF a >= b THEN a ELSE b

---------------------------------------------------------------------------
(* WLEDController.apply_action, up to its first wait: what the call sends  *)
(* now, where the caller goes on, the new pattern_index and whether the    *)
(* call raised.  pc "stop" and "start" enter DaylightCycle.stop / start.   *)

Outcome(pc, sent, index, raised) ==
    [ pc |-> pc, sent |-> sent, index |-> index, raised |-> raised ]

\* the "color:" branch
ApplyColor(action, index) ==
    LET hex_color == LStripHash(AfterColon(action))
    IN  IF Len(hex_color) = 6
        THEN LET r == ParseInt(SubSeq(hex_color, 1, 2), 16)
                 g == ParseInt(SubSeq(hex_color, 3, 4), 16)
                 b == ParseInt(SubSeq(hex_color, 5, 6), 16)
             IN  IF r = <<>> \/ g = <<>> \/ b = <<>>
                 THEN Outcome("idle", <<>>, index, TRUE)   \* ValueError, not caught
                 ELSE Outcome("idle", <<ColorPayload(r[1], g[1], b[1])>>, index, FALSE)
        ELSE Outcome("idle", <<>>, index, FALSE)

\* (variant) the value is posted as parsed, not clamped
ApplyBrightnessNoClamp(action, index) ==
    LET value == ParseInt(AfterColon(action), 10)
    IN  IF value = <<>> THEN Outcome("idle", <<>>, index, FALSE)
        ELSE Outcome("idle", <<BrightnessPayload(value[1])>>, index, FALSE)

\* the "brightness:" branch
ApplyBrightness(action, index) ==
    LET value == ParseInt(AfterColon(action), 10)
    IN  IF value = <<>> THEN Outcome("idle", <<>>, index, FALSE)
        ELSE Outcome("idle", <<BrightnessPayload(Max(0, Min(255, value[1])))>>,
                     index, FALSE)

\* (variant) a "preset:" action that also puts the cursor back to 0
ApplyPresetResetsCursor(action, index) ==
    LET preset_id == ParseInt(AfterColon(action), 10)
    IN  IF preset_id = <<>> THEN Outcome("idle", <<>>, index, FALSE)
        ELSE Outcome("idle", <<PresetPayload(preset_id[1])>>, 0, FALSE)

\* the "preset:" branch
ApplyPreset(action, index) ==
    LET preset_id == ParseInt(AfterColon(action), 10)
    IN  IF preset_id = <<>> THEN Outcome("idle", <<>>, index, FALSE)
        ELSE Outcome("idle", <<PresetPayload(preset_id[1])>>, index, FALSE)

\* (variant) no test for the empty list: a preset id is posted all the same
ApplyCycleNoGuard(presets, index) ==
    IF presets = <<>> THEN Outcome("idle", <<PresetPayload(0)>>, index, FALSE)
    ELSE LET next == (index + 1) % Len(presets)
         IN  Outcome("idle", <<PresetPayload(presets[next + 1])>>, next, FALSE)

\* (variant) the preset under the cursor is posted before the cursor moves
ApplyCyclePostsOld(presets, index) ==
    IF presets = <<>> THEN Outcome("idle", <<>>, index, FALSE)
    ELSE LET next == (index + 1) % Len(presets)
         IN  Outcome("idle", <<PresetPayload(presets[index + 1])>>, next, FALSE)

\* the "cycle" branch (Python indexes the list from 0)
ApplyCycle(presets, index) ==
    IF presets = <<>> THEN Outcome("idle", <<>>, index, FALSE)
    ELSE LET next == (index + 1) % Len(presets)
         IN  Outcome("idle", <<PresetPayload(presets[next + 1])>>, next, FALSE)

\* (variant) the white state is posted at once, the simulator left running
ApplyFullWhiteNoStop(dl, index) ==
    Outcome("idle", <<WhitePayload>>, index, FALSE)

\* the "full_white" branch: into stop() first when a simulator is configured
ApplyFullWhite(dl, index) ==
    IF dl THEN Outcome("stop", <<>>, index, FALSE)
    ELSE Outcome("idle", <<WhitePayload>>, index, FALSE)

ApplyAction(action, dl, presets, index) ==
    IF action = A_on THEN Outcome("idle", <<OnPayload>>, index, FALSE)
    ELSE IF action = A_off THEN
        IF dl THEN Outcome("stop", <<>>, index, FALSE)
        ELSE Outcome("idle", <<OffPayload>>, index, FALSE)
    ELSE IF action = A_full_white THEN ApplyFullWhite(dl, index)
    ELSE IF action = A_daylight_start THEN
        IF dl THEN Outcome("start", <<>>, index, FALSE)
        ELSE Outcome("idle", <<>>, index, FALSE)
    ELSE IF action = A_daylight_stop THEN
        IF dl THEN Outcome("stop", <<>>, index, FALSE)
        ELSE Outcome("idle", <<>>, index, FALSE)
    ELSE IF StartsWith(action, P_color) THEN ApplyColor(action, index)
    ELSE IF StartsWith(action, P_brightness) THEN ApplyBrightness(action, index)
    ELSE IF StartsWith(action, P_preset) THEN ApplyPreset(action, index)
    ELSE IF action = A_cycle THEN ApplyCycle(presets, index)
    ELSE Outcome("idle", <<>>, index, FALSE)

\* where apply_action goes on once stop() has returned
AfterStop(action) ==
    IF action = A_off THEN "post_off"
    ELSE IF action = A_full_white THEN "post_white"
    ELSE "idle"

\* (variant) a lookup that falls back to "on" for a key it does not hold
MappingGetDefaultOn(m, key) == IF key \in DOMAIN m THEN m[key] ELSE A_on

\* self.mapping.get(key): <<>> is None
MappingGet(m, key) == IF key \in DOMAIN m THEN m[key] ELSE <<>>

\* WLEDController.handle_packet up to apply_action's first wait.  ret names
\* the way the call ended: "rejected" (return False, the packet did not
\* parse), "ignored" (return False, no action mapped), "true" (return True),
\* "raise" (apply_action raised), "none" while apply_action is still running
HandleOutcome(pkt, ct, m, dl, presets, index) ==
    LET r == ParsePacket(pkt, ct)
    IN  IF r = Rejected
        THEN [ pc |-> "idle", sent |-> <<>>, index |-> index, ret |-> "rejected",
               action |-> <<>> ]
        ELSE LET action == MappingGet(m, <<r.address, r.data_field>>)
             IN  IF action = <<>>
                 THEN [ pc |-> "idle", sent |-> <<>>, index |-> index,
                        ret |-> "ignored", action |-> <<>> ]
                 ELSE LET o == ApplyAction(action, dl, presets, index)
                      IN  [ pc |-> o.pc, sent |-> o.sent, index |-> o.index,
                            ret |-> IF o.raised THEN "raise"
                                    ELSE IF o.pc = "idle" THEN "true" ELSE "none",
                            action |-> IF o.pc = "idle" THEN <<>> ELSE action ]

---------------------------------------------------------------------------
(* Inputs: the configurations a controller is built with and the packets   *)
(* the bus reader hands it.                                                *)

\* characters of a "color:" argument: a hex digit, a letter that is not one,
\* and the "#" that may lead
ColorChars == {"a", "z", "#"}

\* every string over ColorChars of length 0..MaxArgLen
RECURSIVE StringsUpTo(_, _)
StringsUpTo(chars, n) ==
    IF n = 0 THEN { <<>> }
    ELSE LET shorter == StringsUpTo(chars, n - 1)
         IN  shorter \cup { Append(w, c) : w \in shorter, c \in chars }

\* the arguments of the "color:" actions tried: every string over ColorChars,
\* and two well-formed colours with distinct digits
ColorArgs ==
    StringsUpTo(ColorChars, MaxArgLen)
    \cup { <<"#", "1", "2", "3", "4", "5", "6">>, <<"F", "f", "0", "0", "8", "0">> }

\* the mapping of a layout that runs the daylight cycle
LifecycleMapping ==
    ( <<50, 1>> :> A_on @@ <<50, 2>> :> A_off @@
      <<50, 4>> :> A_full_white @@ <<50, 5>> :> A_daylight_start @@
      <<50, 6>> :> A_daylight_stop )

\* a mapping with every action the controller knows, one it does not know
\* ("blink") and an empty action string, all on accessory address 50
FullMapping ==
    LifecycleMapping @@
    ( <<50, 3>> :> A_cycle @@
      <<50, 7>> :> P_brightness \o <<"9", "9", "9">> @@
      <<50, 8>> :> P_preset \o <<"7">> @@
      <<50, 9>> :> <<"b", "l", "i", "n", "k">> @@
      <<50, 10>> :> <<>> )

\* a mapping whose one entry is a "color:" action
ColorMapping(arg) == ( <<51, 1>> :> P_color \o arg )

\* str(v) of an integer, as a layout file writes the <0-255> of
\* "brightness:<0-255>"
RECURSIVE NatToStr(_)
NatToStr(n) ==
    LET digit == <<"0", "1", "2", "3", "4", "5", "6", "7", "8", "9">>[(n % 10) + 1]
    IN  IF n < 10 THEN << digit >> ELSE Append(NatToStr(n \div 10), digit)

IntToStr(v) == IF v < 0 THEN <<"-">> \o NatToStr(-v) ELSE NatToStr(v)

\* the integers tried as a brightness: around both ends of 0..255, and the
\* documented 999
BrightnessInts == (-MaxBrightness..MaxBrightness) \cup {999}

\* arguments of "brightness:" that int() refuses
NonNumericArgs ==
    { <<>>, <<"a", "b", "c">>, <<"1", "2", "a">>, <<"1", ".", "5">>, <<"-">>,
      <<"-", "-", "1">>, <<"#", "7">> }

\* a mapping whose one entry is the "cycle" action
CycleMapping == ( <<50, 3>> :> A_cycle )

\* the preset lists tried with it: empty, one id, distinct ids, a repeated id
CyclePresetLists == { <<>>, <<5>>, <<7, 8>>, <<1, 2, 3>>, <<4, 4, 9>> }

\* a mapping whose one entry is a "brightness:" action
BrightnessMapping(arg) == ( <<52, 1>> :> P_brightness \o arg )

Configs ==
    { [ daylight |-> TRUE, mapping |-> LifecycleMapping, presets |-> <<>> ] }
    \cup
    { [ daylight |-> FALSE, mapping |-> FullMapping, presets |-> p ] :
          p \in { <<>>, <<1, 2, 3>> } }
    \cup
    { [ daylight |-> FALSE, mapping |-> ColorMapping(a), presets |-> <<>> ] :
          a \in ColorArgs }
    \cup
    { [ daylight |-> FALSE, mapping |-> CycleMapping, presets |-> p ] :
          p \in CyclePresetLists }
    \cup
    { [ daylight |-> FALSE, mapping |-> BrightnessMapping(a), presets |-> <<>> ] :
          a \in { IntToStr(v) : v \in BrightnessInts } \cup NonNumericArgs }

\* the packet that decodes to (address, data_field) with the given frame type
PacketFor(type, address, data) ==
    << Sentinel, type * 64 + address \div 2, (address % 2) * 128 + data >>

Packets ==
    { PacketFor(3, 50, d) : d \in 1..11 }          \* accessory 50, keys 1..11
    \cup { PacketFor(3, 51, 1), PacketFor(3, 52, 1), PacketFor(2, 50, 2) }
    \cup { <<254, 242, 1>>, <<254, 242, 2>>, <<254, 242, 3>> }  \* the harness's samples
    \cup { PacketFor(0, 50, 1), <<253, 217, 1>>, <<254, 217>>, <<>> }

\* the calls tried: <<packet, cmd_type>>, most without a cmd_type
Inputs ==
    { <<pkt, <<>> >> : pkt \in Packets }
    \cup { << PacketFor(0, 50, 1), <<3>> >>, << PacketFor(3, 50, 1), <<1>> >> }

\* the manual test harness: its mapping, its presets and its sample packets
HarnessMapping ==
    ( <<50, 1>> :> A_on @@ <<50, 2>> :> A_off @@ <<50, 3>> :> A_cycle )

HarnessPresets == <<1, 2, 3>>

sample_packets ==
    << <<254, 242, 1>>,    \* [0xFE, 0b11110010, 0b00000001]
       <<254, 242, 2>>,    \* [0xFE, 0b11110010, 0b00000010]
       <<254, 242, 3>> >>  \* [0xFE, 0b11110010, 0b00000011]

---------------------------------------------------------------------------
(* The state after WLEDController.__init__ has built its objects; with     *)
(* daylight_cycle the constructor's last statement, self.daylight.start(), *)
(* is the caller's first operation.                                        *)

\* the variables of SpecSky and of SpecPost, where those are not run
SkyUnused ==
    /\ keyframes = DEFAULT_KEYFRAMES
    /\ virtual_hour = <<0, 1>>
    /\ moon_start = MoonStart
    /\ moon_length = MoonLength
    /\ sky_color = <<>>
    /\ segments = <<>>
    /\ skyPc = "unused"

ClientUnused ==
    /\ postPayload = OnPayload
    /\ postFault = "none"
    /\ postStatus = 200
    /\ conn = "unbound"
    /\ postPc = "unused"
    /\ postRet = "none"

\* the state a controller built with configuration c starts in
InitWith(c) ==
    /\ daylight = c.daylight
    /\ mapping = c.mapping
    /\ pattern_presets = c.presets
    /\ pattern_index = 0
    /\ running = FALSE
    /\ thread = 0
    /\ cycle_count = 0
    /\ start_time = 0
    /\ loopPc = [t \in Threads |-> "dead"]
    /\ loopElapsed = [t \in Threads |-> 0]
    /\ firstTick = [t \in Threads |-> FALSE]
    /\ tickCycle = [t \in Threads |-> 0]
    /\ callerPc = IF c.daylight THEN "start" ELSE "idle"
    /\ callerAction = <<>>
    /\ lastCall = "none"
    /\ ranAtEntry = FALSE
    /\ callPosted = FALSE
    /\ lastPostOk = <<>>
    /\ ticksAfterStop = [t \in Threads |-> 0]
    /\ posts = <<>>
    /\ postCount = 0
    /\ now = 0
    /\ packet = <<>>
    /\ cmd_type = <<>>
    /\ parsed = Rejected
    /\ decodePc = "unused"
    /\ SkyUnused
    /\ ClientUnused

Init == \E c \in Configs : InitWith(c)

cfgVars == << daylight, mapping, pattern_presets >>
simVars == << running, thread, cycle_count, start_time >>
loopVars == << loopPc, loopElapsed, firstTick, tickCycle >>
devVars == << posts, postCount >>
decVars == << packet, cmd_type, parsed, decodePc >>
skyVars == << keyframes, virtual_hour, moon_start, moon_length, sky_color,
             segments, skyPc >>
clientVars == << postPayload, postFault, postStatus, conn, postPc, postRet >>
\* what the controller's operations never touch
otherVars == << skyVars, clientVars >>

\* the device's window of recent posts after one more
Push(log, p) ==
    IF Len(log) < MaxPosts THEN Append(log, p) ELSE Append(Tail(log), p)

\* WLEDClient.post_state(p), its boolean result dropped as every caller does
Post(p) ==
    /\ posts' = Push(posts, p)
    /\ postCount' = (postCount + 1) % PostCountMod

\* (variant) a post that is sent again when it failed
CallerPostRetry(p) ==
    /\ \E ok \in BOOLEAN :
           /\ lastPostOk' = << ok >>
           /\ posts' = IF ok THEN Push(posts, p) ELSE Push(Push(posts, p), p)
           /\ postCount' = (postCount + (IF ok THEN 1 ELSE 2)) % PostCountMod
    /\ callPosted' = TRUE

\* post_state(p) called on the caller's thread: it returns True or False (a
\* non-2xx status or a transport error), and the caller goes on either way
CallerPost(p) ==
    /\ Post(p)
    /\ \E ok \in BOOLEAN : lastPostOk' = << ok >>
    /\ callPosted' = TRUE

\* the boolean handle_packet returned, for a call that returned
Returned(call) == call = "true"

\* apply_action returns to handle_packet, which returns True (the
\* constructor's start() returns to the constructor)
Return ==
    /\ callerPc' = "idle"
    /\ lastCall' = IF callerAction = <<>> THEN lastCall ELSE "true"
    /\ callerAction' = <<>>
    /\ ranAtEntry' = FALSE

---------------------------------------------------------------------------
(* The dispatch caller. *)

\* handle_packet(pkt, ct), to its return or to the start()/stop() it calls
HandlePacket(pkt, ct) ==
    /\ callerPc = "idle"
    /\ \E o \in { HandleOutcome(pkt, ct, mapping, daylight, pattern_presets,
                                 pattern_index) } :
           /\ o.pc = "start" /\ ~running => \E t \in Threads : loopPc[t] = "dead"
           /\ callerPc' = o.pc
           /\ callerAction' = o.action
           /\ lastCall' = o.ret
           /\ ranAtEntry' = (o.pc # "idle" /\ running)
           /\ pattern_index' = o.index
           /\ IF o.sent = <<>>
              THEN UNCHANGED << devVars, lastPostOk >> /\ callPosted' = FALSE
              ELSE CallerPost(o.sent[1])
    /\ UNCHANGED << cfgVars, simVars, loopVars, now, decVars, ticksAfterStop,
                    otherVars >>

\* DaylightCycle.start: the guard and the baseline post
StartEnter ==
    /\ callerPc = "start"
    /\ IF running
       THEN Return /\ UNCHANGED << devVars, callPosted, lastPostOk >>
       ELSE /\ CallerPost(BaselinePayload)
            /\ callerPc' = "start_run"
            /\ UNCHANGED << callerAction, lastCall, ranAtEntry >>
    /\ UNCHANGED << cfgVars, simVars, loopVars, now, decVars, pattern_index,
                    ticksAfterStop, otherVars >>

\* (variant) a start() that also begins the cycle count anew
StartSetRunningResets ==
    /\ callerPc = "start_run"
    /\ running' = TRUE
    /\ cycle_count' = 0
    /\ ticksAfterStop' = [t \in Threads |-> 0]
    /\ callerPc' = "start_launch"
    /\ UNCHANGED << callerAction, lastCall, ranAtEntry >>
    /\ UNCHANGED << cfgVars, thread, start_time, loopVars, devVars,
                    now, decVars, pattern_index, callPosted, lastPostOk,
                    otherVars >>

\* self._running = True
StartSetRunning ==
    /\ callerPc = "start_run"
    /\ running' = TRUE
    /\ ticksAfterStop' = [t \in Threads |-> 0]
    /\ callerPc' = "start_launch"
    /\ UNCHANGED << callerAction, lastCall, ranAtEntry >>
    /\ UNCHANGED << cfgVars, thread, cycle_count, start_time, loopVars, devVars,
                    now, decVars, pattern_index, callPosted, lastPostOk,
                    otherVars >>

\* self._thread = Thread(target=self._loop); self._thread.start(); the new
\* thread takes the first free slot (which slot is of no consequence)
StartLaunch ==
    /\ callerPc = "start_launch"
    /\ \E t \in Threads :
           /\ loopPc[t] = "dead"
           /\ \A u \in Threads : loopPc[u] = "dead" => t <= u
           /\ thread' = t
           /\ loopPc' = [loopPc EXCEPT ![t] = "init"]
    /\ Return
    /\ UNCHANGED << cfgVars, running, cycle_count, start_time, loopElapsed,
                    firstTick, tickCycle, devVars, now, decVars, pattern_index,
                    callPosted, lastPostOk, ticksAfterStop, otherVars >>

\* (variant) stop() that leaves the flag set
StopEnterNoClear ==
    /\ callerPc = "stop"
    /\ callerPc' = "stop_join"
    /\ UNCHANGED << callerAction, lastCall, ranAtEntry >>
    /\ UNCHANGED << cfgVars, simVars, loopVars, devVars, now, decVars,
                    pattern_index, callPosted, lastPostOk, ticksAfterStop,
                    otherVars >>

\* DaylightCycle.stop: self._running = False
StopEnter ==
    /\ callerPc = "stop"
    /\ running' = FALSE
    /\ callerPc' = "stop_join"
    /\ UNCHANGED << callerAction, lastCall, ranAtEntry >>
    /\ UNCHANGED << cfgVars, thread, cycle_count, start_time, loopVars, devVars,
                    now, decVars, pattern_index, callPosted, lastPostOk,
                    ticksAfterStop, otherVars >>

\* stop() goes on after the join: back into apply_action
StopGoesOn ==
    /\ IF AfterStop(callerAction) = "idle"
       THEN Return
       ELSE /\ callerPc' = AfterStop(callerAction)
            /\ UNCHANGED << callerAction, lastCall, ranAtEntry >>
    /\ UNCHANGED << cfgVars, simVars, loopVars, devVars, now, decVars,
                    pattern_index, callPosted, lastPostOk, ticksAfterStop,
                    otherVars >>

\* self._thread.join(timeout=2) returns because the thread has ended (or
\* there is no thread to join)
StopJoined ==
    /\ callerPc = "stop_join"
    /\ thread = 0 \/ loopPc[thread] = "dead"
    /\ StopGoesOn

\* (variant) a join that never times out
StopNeverTimesOut == FALSE /\ UNCHANGED vars

\* self._thread.join(timeout=2) returns on its timeout, the thread alive
StopTimedOut ==
    /\ callerPc = "stop_join"
    /\ thread # 0 /\ loopPc[thread] # "dead"
    /\ StopGoesOn

\* apply_action "off": the post after the stop
PostOff ==
    /\ callerPc = "post_off"
    /\ CallerPost(OffPayload)
    /\ Return
    /\ UNCHANGED << cfgVars, simVars, loopVars, now, decVars, pattern_index,
                    ticksAfterStop, otherVars >>

\* apply_action "full_white": the post after the stop
PostWhite ==
    /\ callerPc = "post_white"
    /\ CallerPost(WhitePayload)
    /\ Return
    /\ UNCHANGED << cfgVars, simVars, loopVars, now, decVars, pattern_index,
                    ticksAfterStop, otherVars >>

---------------------------------------------------------------------------
(* DaylightCycle._loop, run by each thread start() launches. *)

\* (variant) a loop that keeps the _start_time it finds
LoopInitKeepsStart(t) ==
    /\ loopPc[t] = "init"
    /\ loopPc' = [loopPc EXCEPT ![t] = "check"]
    /\ firstTick' = [firstTick EXCEPT ![t] = TRUE]
    /\ tickCycle' = [tickCycle EXCEPT ![t] = 0]
    /\ UNCHANGED << cfgVars, simVars, loopElapsed, devVars,
                    now, decVars, pattern_index, callerPc, callerAction, lastCall,
                    ranAtEntry, callPosted, lastPostOk, ticksAfterStop,
                    otherVars >>

\* self._start_time = time.time()
LoopInit(t) ==
    /\ loopPc[t] = "init"
    /\ start_time' = now
    /\ loopPc' = [loopPc EXCEPT ![t] = "check"]
    /\ firstTick' = [firstTick EXCEPT ![t] = TRUE]
    /\ tickCycle' = [tickCycle EXCEPT ![t] = 0]
    /\ UNCHANGED << cfgVars, running, thread, cycle_count, loopElapsed, devVars,
                    now, decVars, pattern_index, callerPc, callerAction, lastCall,
                    ranAtEntry, callPosted, lastPostOk, ticksAfterStop,
                    otherVars >>

\* (variant) a loop that goes on into its next tick without testing the flag
LoopCheckBlind(t) ==
    /\ loopPc[t] = "check"
    /\ LET elapsed == 24 * (now - start_time) + 14 * CycleDuration
           new_cycle_count == elapsed \div (24 * CycleDuration)
       IN  /\ loopPc' = [loopPc EXCEPT ![t] = "post"]
           /\ loopElapsed' = [loopElapsed EXCEPT ![t] = elapsed]
           /\ cycle_count' = IF new_cycle_count > cycle_count
                             THEN new_cycle_count ELSE cycle_count
           /\ tickCycle' = [tickCycle EXCEPT ![t] = new_cycle_count]
    /\ UNCHANGED << cfgVars, running, thread, start_time, devVars, now, decVars,
                    pattern_index, callerPc, callerAction, lastCall, ranAtEntry,
                    callPosted, lastPostOk, ticksAfterStop, firstTick, otherVars >>

\* while self._running: the test, made first after _start_time is set and
\* then after each time.sleep(update_interval); when it passes, elapsed is
\* read off the clock and the cycle counter brought up to
\* int(elapsed // cycle_duration)
LoopCheck(t) ==
    /\ loopPc[t] = "check"
    /\ IF running
       THEN LET elapsed == 24 * (now - start_time) + 14 * CycleDuration
                new_cycle_count == elapsed \div (24 * CycleDuration)
            IN  /\ loopPc' = [loopPc EXCEPT ![t] = "post"]
                /\ loopElapsed' = [loopElapsed EXCEPT ![t] = elapsed]
                /\ cycle_count' = IF new_cycle_count > cycle_count
                                  THEN new_cycle_count ELSE cycle_count
                /\ tickCycle' = [tickCycle EXCEPT ![t] = new_cycle_count]
       ELSE /\ loopPc' = [loopPc EXCEPT ![t] = "dead"]
            /\ tickCycle' = [tickCycle EXCEPT ![t] = 0]
            /\ UNCHANGED << loopElapsed, cycle_count >>
    /\ ticksAfterStop' = IF running THEN ticksAfterStop
                          ELSE [ticksAfterStop EXCEPT ![t] = 0]
    /\ firstTick' = IF running THEN firstTick
                     ELSE [firstTick EXCEPT ![t] = FALSE]
    /\ UNCHANGED << cfgVars, running, thread, start_time, devVars, now, decVars,
                    pattern_index, callerPc, callerAction, lastCall, ranAtEntry,
                    callPosted, lastPostOk, otherVars >>

\* self.client.post_state({"on": True, "seg": segments}), then the sleep
LoopPost(t) ==
    /\ loopPc[t] = "post"
    /\ Post(TickPayload(loopElapsed[t]))
    /\ loopPc' = [loopPc EXCEPT ![t] = "check"]
    /\ loopElapsed' = [loopElapsed EXCEPT ![t] = 0]
    /\ firstTick' = [firstTick EXCEPT ![t] = FALSE]
    /\ UNCHANGED tickCycle
    /\ ticksAfterStop' =
           IF running THEN ticksAfterStop
           ELSE [ticksAfterStop EXCEPT ![t] = Min(ticksAfterStop[t] + 1, 2)]
    /\ UNCHANGED << cfgVars, simVars, now, decVars, pattern_index, callerPc,
                    callerAction, lastCall, ranAtEntry, callPosted, lastPostOk,
                    otherVars >>

LoopStep(t) ==
    LoopInit(t) \/ LoopCheck(t) \/ LoopPost(t)

CallerStep ==
    \/ StartEnter \/ StartSetRunning \/ StartLaunch
    \/ StopEnter \/ StopJoined \/ StopTimedOut
    \/ PostOff \/ PostWhite

Next ==
    \/ \E in \in Inputs : HandlePacket(in[1], in[2])
    \/ StartEnter
    \/ StartSetRunning
    \/ StartLaunch
    \/ StopEnter
    \/ StopJoined
    \/ StopTimedOut
    \/ PostOff
    \/ PostWhite
    \/ \E t \in Threads : LoopInit(t)
    \/ \E t \in Threads : LoopCheck(t)
    \/ \E t \in Threads : LoopPost(t)

Spec == Init /\ [][Next]_vars

SpecStopFair ==
    \* the caller's thread runs on: a join with a timeout returns
    Init /\ [][Next]_vars /\ WF_vars(StopEnter \/ StopJoined \/ StopTimedOut)

\* a controller built with daylight_cycle=True
InitDaylight == Init /\ daylight

SpecFair ==
    \* every thread is scheduled again and again and every device post
    \* returns (no loop stays inside post_state for ever); the bus reader may
    \* hand over packets or not
    InitDaylight /\ [][Next]_vars /\ WF_vars(CallerStep)
        /\ \A t \in Threads :
               WF_vars(LoopInit(t) \/ LoopCheck(t)) /\ []<>(loopPc[t] # "post")

---------------------------------------------------------------------------
(* The simulator with the clock running.  time.time() is read in whole     *)
(* time units, CycleDuration of them to one simulated day; the clock may   *)
(* step at any point, except between a loop's self._start_time =           *)
(* time.time() and the time.time() of its first iteration: the same thread *)
(* reads the clock twice with one assignment and the while test between,   *)
(* and both readings fall into one time unit.                              *)

\* the clock moves on by one time unit
Advance ==
    /\ now < MaxTime
    /\ \A t \in Threads : ~(firstTick[t] /\ loopPc[t] = "check")
    /\ now' = now + 1
    /\ UNCHANGED << cfgVars, simVars, loopVars, devVars, decVars, pattern_index,
                    callerPc, callerAction, lastCall, ranAtEntry, callPosted,
                    lastPostOk, ticksAfterStop, otherVars >>

\* the calls tried while the clock runs: "daylight_start", "daylight_stop"
\* and a frame that is not mapped
ClockInputs ==
    { << PacketFor(3, 50, 5), <<>> >>, << PacketFor(3, 50, 6), <<>> >>,
      << PacketFor(3, 50, 11), <<>> >> }

InitClock == Init /\ daylight

NextClock ==
    \/ \E in \in ClockInputs : HandlePacket(in[1], in[2])
    \/ StartEnter
    \/ StartSetRunning
    \/ StartLaunch
    \/ StopEnter
    \/ StopJoined
    \/ StopTimedOut
    \/ \E t \in Threads : LoopInit(t)
    \/ \E t \in Threads : LoopCheck(t)
    \/ \E t \in Threads : LoopPost(t)
    \/ Advance

SpecClock == InitClock /\ [][NextClock]_vars

---------------------------------------------------------------------------
(* A layout that runs the daylight cycle and maps every kind of action.    *)

\* the actions that are not "off" or "full_white": "on", "cycle", the two
\* daylight actions, a "brightness:", a "preset:", an action the controller
\* does not know and a well-formed "color:"
MixedMapping ==
    ( <<50, 1>> :> A_on @@ <<50, 3>> :> A_cycle @@
      <<50, 5>> :> A_daylight_start @@ <<50, 6>> :> A_daylight_stop @@
      <<50, 7>> :> P_brightness \o <<"9", "9", "9">> @@
      <<50, 8>> :> P_preset \o <<"7">> @@
      <<50, 9>> :> <<"b", "l", "i", "n", "k">> @@
      <<51, 1>> :> P_color \o <<"#", "1", "2", "3", "4", "5", "6">> )

MixedConfig == [ daylight |-> TRUE, mapping |-> MixedMapping, presets |-> <<1, 2>> ]

\* the calls tried: one frame for each mapped key, one that is not mapped
\* and one the decoder rejects
MixedInputs ==
    { << PacketFor(3, k[1], k[2]), <<>> >> : k \in DOMAIN MixedMapping }
    \cup { << PacketFor(3, 50, 11), <<>> >>, << <<253, 217, 1>>, <<>> >> }

InitMixed == InitWith(MixedConfig)

NextMixed ==
    \/ \E in \in MixedInputs : HandlePacket(in[1], in[2])
    \/ StartEnter
    \/ StartSetRunning
    \/ StartLaunch
    \/ StopEnter
    \/ StopJoined
    \/ StopTimedOut
    \/ \E t \in Threads : LoopInit(t)
    \/ \E t \in Threads : LoopCheck(t)
    \/ \E t \in Threads : LoopPost(t)

SpecMixed == InitMixed /\ [][NextMixed]_vars

---------------------------------------------------------------------------
(* The decoder on its own: parse_tmcc_switch_or_accessory applied to every *)
(* 3-byte packet that starts with the sentinel, and to samples of the      *)
(* packets of other lengths or with another first byte.                    *)

SampleBytes == {0, 1, 133, 217, 253, 254}

RECURSIVE SeqsOfLen(_, _)
SeqsOfLen(S, n) ==
    IF n = 0 THEN { <<>> }
    ELSE { Append(w, b) : w \in SeqsOfLen(S, n - 1), b \in S }

DecodeInputs ==
    { <<Sentinel, b1, b2>> : b1 \in 0..255, b2 \in 0..255 }
    \cup { <<b0, b1, b2>> : b0 \in {0, 253, 255}, b1 \in SampleBytes, b2 \in SampleBytes }
    \cup UNION { SeqsOfLen(SampleBytes, n) : n \in (0..MaxPacketLen) \ {3} }

DecodeOverrides == { <<>>, <<0>>, <<1>>, <<2>>, <<3>>, <<4>> }

InitDecode ==
    /\ packet \in DecodeInputs
    /\ cmd_type \in DecodeOverrides
    /\ parsed = Rejected
    /\ decodePc = "input"
    /\ daylight = FALSE
    /\ mapping = LifecycleMapping
    /\ pattern_presets = <<>>
    /\ pattern_index = 0
    /\ running = FALSE
    /\ thread = 0
    /\ cycle_count = 0
    /\ start_time = 0
    /\ loopPc = [t \in Threads |-> "dead"]
    /\ loopElapsed = [t \in Threads |-> 0]
    /\ firstTick = [t \in Threads |-> FALSE]
    /\ tickCycle = [t \in Threads |-> 0]
    /\ callerPc = "unused"
    /\ callerAction = <<>>
    /\ lastCall = "none"
    /\ ranAtEntry = FALSE
    /\ callPosted = FALSE
    /\ lastPostOk = <<>>
    /\ ticksAfterStop = [t \in Threads |-> 0]
    /\ posts = <<>>
    /\ postCount = 0
    /\ now = 0
    /\ SkyUnused
    /\ ClientUnused

\* parsed = parse_tmcc_switch_or_accessory(packet, cmd_type)
Decode ==
    /\ decodePc = "input"
    /\ parsed' = ParsePacket(packet, cmd_type)
    /\ decodePc' = "done"
    /\ UNCHANGED << packet, cmd_type, cfgVars, simVars, loopVars, devVars, now,
                    pattern_index, callerPc, callerAction, lastCall, ranAtEntry,
                    callPosted, lastPostOk, ticksAfterStop, otherVars >>

NextDecode == Decode

SpecDecode == InitDecode /\ [][NextDecode]_vars

---------------------------------------------------------------------------
(* Properties of the decoder, checked under SpecDecode. *)

\* the frame-type code of a 3-byte packet as the claim words it, in plain
\* arithmetic: the override when one is supplied, else bits 7-6 of byte 1
TypeCodeTested ==
    IF cmd_type = <<>> THEN (packet[2] \div 64) % 4 ELSE cmd_type[1]

ParsedFields == {"address", "cmd_field", "data_field", "cmd_type"}

\* C7: decode returns Rejected for every byte sequence whose length is not 3,
\* or whose first byte is not 0xFE, or whose frame-type code (the override
\* when supplied, else byte 1 bits 7-6) is neither 2 nor 3; and what it
\* returns is Rejected or a result with all four fields, never a part of one.
C7_RejectsMalformed ==
    decodePc = "done" =>
        /\ (Len(packet) # 3 \/ packet[1] # 254 \/ TypeCodeTested \notin {2, 3})
               => parsed = Rejected
        /\ parsed = Rejected \/ DOMAIN parsed = ParsedFields

\* C7 witness: an accessory packet (byte 1 bits 7-6 = 3) rejected because the
\* caller's override says frame type 1
C7_Witness ==
    /\ decodePc = "done"
    /\ packet = <<254, 217, 1>>
    /\ cmd_type = <<1>>
    /\ parsed = Rejected

\* C8: every accepted 3-byte frame decodes to
\* address = ((byte1 & 0x3F) << 1) | ((byte2 & 0x80) >> 7) in 0..127,
\* cmdField = (byte2 & 0x60) >> 5 in 0..3, dataField = byte2 & 0x1F in 0..31
\* and the frame type tested; [0xFE, 0xC1, 0x85] gives 3, 0, 5, accessory and
\* [0xFE, 0xC0, 0] gives 0, 0, 0.
C8_DecodesFields ==
    (decodePc = "done" /\ parsed # Rejected) =>
        /\ parsed.address = (packet[2] % 64) * 2 + packet[3] \div 128
        /\ parsed.address \in 0..127
        /\ parsed.cmd_field = (packet[3] % 128) \div 32
        /\ parsed.cmd_field \in 0..3
        /\ parsed.data_field = packet[3] % 32
        /\ parsed.data_field \in 0..31
        /\ parsed.cmd_type = TypeCodeTested
        /\ (packet = <<254, 193, 133>> /\ cmd_type = <<>>) =>
               parsed = [address |-> 3, cmd_field |-> 0, data_field |-> 5,
                         cmd_type |-> 3]
        /\ (packet = <<254, 192, 0>> /\ cmd_type = <<>>) =>
               parsed = [address |-> 0, cmd_field |-> 0, data_field |-> 0,
                         cmd_type |-> 3]

\* C8 witness: the documented frame [0xFE, 0b11000001, 0b10000101], decoded
C8_Witness ==
    /\ decodePc = "done"
    /\ packet = <<254, 193, 133>>
    /\ cmd_type = <<>>
    /\ parsed # Rejected
    /\ parsed.address = 3

---------------------------------------------------------------------------
(* Properties of the controller and the simulator, checked under Spec and  *)
(* its fair variants.                                                      *)

\* the loop threads that have been launched and have not ended
Alive == { t \in Threads : loopPc[t] # "dead" }

\* this step made a device call whose payload satisfies the test
Posted(test(_)) ==
    /\ postCount' # postCount
    /\ posts' # <<>>
    /\ test(posts'[Len(posts')])

\* this step made no device call
NoPost == posts' = posts /\ postCount' = postCount

\* C1: apply_action("off") with a simulator configured: stop() has cleared
\* the running flag before {on: false} is posted; the post is made only with
\* the simulator Stopped, and the caller reaches the post only after stop().
C1_StopBeforeOff ==
    [][ /\ (daylight /\ Posted(IsOff)) => (~running /\ ~running')
        /\ (daylight /\ Posted(IsOff)) => callerPc = "post_off"
        /\ callerPc' = "post_off" => ~running' ]_vars

\* C1 witness: "off" dispatched right after the constructor's start(): the
\* baseline, then stop(), then {on: false} posted with the flag cleared
C1_Witness ==
    /\ daylight
    /\ callerPc = "idle"
    /\ lastCall = "true"
    /\ ~running
    /\ posts = << BaselinePayload, OffPayload >>

\* C2 (as claimed): in the device's view no tick of the loop follows an
\* {on: false} post unless start() has been called in between (start() on a
\* Stopped simulator posts the baseline first).
C2_NoTickAfterOff ==
    \A i \in 1..Len(posts) : \A j \in (i + 1)..Len(posts) :
        (daylight /\ IsOff(posts[i]) /\ IsTick(posts[j]))
            => \E k \in (i + 1)..(j - 1) : IsBaseline(posts[k])

\* the loop threads inside their while loop: in a tick or in its sleep
Ticking == { t \in Threads : loopPc[t] \in {"check", "post"} }

\* C3 (as claimed): at most one loop thread of the simulator is alive and
\* ticking at any time.
C3_AtMostOneLoop == Cardinality(Ticking) <= 1

\* what one start() call does, step by step: on a Running simulator no
\* device call, no thread and nothing of the simulator changed; on a Stopped
\* one exactly one call, the baseline, then the flag, then exactly one loop
StartCallEffects ==
    /\ (callerPc = "start" /\ callerPc' # "start" /\ running) =>
           /\ NoPost
           /\ UNCHANGED << simVars, loopVars >>
           /\ callerPc' = "idle"
    /\ (callerPc = "start" /\ callerPc' # "start" /\ ~running) =>
           /\ Posted(IsBaseline)
           /\ UNCHANGED << simVars, loopVars >>
           /\ callerPc' = "start_run"
    /\ (callerPc = "start_run" /\ callerPc' # "start_run") =>
           /\ NoPost /\ running' /\ UNCHANGED loopVars
           /\ callerPc' = "start_launch"
    /\ (callerPc = "start_launch" /\ callerPc' # "start_launch") =>
           /\ NoPost /\ running' /\ callerPc' = "idle"
           /\ \E t \in Threads :
                  /\ loopPc[t] = "dead" /\ loopPc'[t] = "init" /\ thread' = t
                  /\ \A u \in Threads \ {t} : loopPc'[u] = loopPc[u]

\* C4 (as claimed): start() on a Running simulator makes no device call,
\* launches no thread and changes nothing of the simulator, start() on a
\* Stopped one makes exactly one call, the baseline; and when the second of
\* two start() calls in a row returns, exactly one loop is active.
C4_StartTwiceOneLoop ==
    [][ /\ StartCallEffects
        /\ (callerPc = "start" /\ running /\ callerPc' = "idle") =>
               Cardinality(Alive') = 1 ]_vars

\* C5 (as claimed): a loop that is alive when stop() has cleared the flag
\* eventually ends, whatever start() and stop() calls follow.
C5_LoopExits ==
    \A t \in Threads :
        (loopPc[t] # "dead" /\ callerPc = "stop_join") ~> (loopPc[t] = "dead")

\* C6: stop() always returns to its caller, with the flag cleared, even if
\* the loop never runs again.
C6_StopReturns ==
    (callerPc = "stop") ~> (callerPc \notin {"stop", "stop_join"} /\ ~running)

\* C6 witness: stop() has returned to apply_action("off") on its timeout: the
\* thread it joined is still alive
C6_Witness ==
    /\ callerPc = "post_off"
    /\ thread # 0
    /\ loopPc[thread] # "dead"
    /\ ~running

\* the packet decodes and the mapping holds nothing for its key (the key in
\* plain arithmetic)
DecodableUnmapped(pkt, ct) ==
    /\ Len(pkt) = 3
    /\ pkt[1] = 254
    /\ (IF ct = <<>> THEN (pkt[2] \div 64) % 4 ELSE ct[1]) \in {2, 3}
    /\ << (pkt[2] % 64) * 2 + pkt[3] \div 128, pkt[3] % 32 >> \notin DOMAIN mapping

\* C9: handle_packet on a decodable frame whose (address, data_field) is not
\* in the mapping returns False, makes no device call and leaves the
\* simulator and the preset cursor as they were: for every such input the
\* call ends "ignored" at once, and the step that ends a call so posts
\* nothing and changes nothing of the simulator, the loops or the cursor.
C9_UnmappedIgnored ==
    /\ [](\A in \in Inputs :
              DecodableUnmapped(in[1], in[2]) =>
                  \E o \in { HandleOutcome(in[1], in[2], mapping, daylight,
                                           pattern_presets, pattern_index) } :
                      /\ o.ret = "ignored" /\ ~Returned(o.ret)
                      /\ o.pc = "idle"
                      /\ o.sent = <<>>
                      /\ o.index = pattern_index)
    /\ [][ (lastCall' = "ignored" /\ lastCall # "ignored") =>
               /\ callerPc = "idle" /\ callerPc' = "idle"
               /\ NoPost
               /\ UNCHANGED << simVars, loopVars, pattern_index >> ]_vars

\* C9 witness: an unmapped frame has just been ignored by a controller whose
\* simulator is running
C9_Witness ==
    /\ lastCall = "ignored"
    /\ callerPc = "idle"
    /\ daylight
    /\ running
    /\ Alive # {}

\* a colour argument as the claim words it: an optional leading "#", then
\* exactly six hexadecimal digits
WellFormedColor(arg) ==
    LET body == IF arg # <<>> /\ arg[1] = "#" THEN Tail(arg) ELSE arg
    IN  Len(body) = 6 /\ \A i \in 1..6 : IsDigit(body[i], 16)

\* C10 (as claimed): a controller whose one action is "color:" with an
\* argument that is not well formed never raises out of the dispatch and
\* never makes a device call.
C10_MalformedColorDropped ==
    (<<51, 1>> \in DOMAIN mapping /\ ~WellFormedColor(AfterColon(mapping[<<51, 1>>])))
        => (lastCall # "raise" /\ posts = <<>>)

---------------------------------------------------------------------------
(* Properties of apply_action's branches, checked under Spec. *)

\* max(0, min(255, v)) in plain arithmetic
Clamped(v) == IF v < 0 THEN 0 ELSE IF v > 255 THEN 255 ELSE v

\* C11: a controller whose one action is "brightness:<v>", v an integer:
\* each dispatch of it posts exactly one state, {bri: max(0, min(255, v))},
\* and returns; with an argument int() refuses no device call is ever made
\* and nothing is raised.
C11_BrightnessClamped ==
    /\ [](<<52, 1>> \in DOMAIN mapping =>
              \A v \in BrightnessInts :
                  mapping = BrightnessMapping(IntToStr(v)) =>
                      /\ lastCall # "raise"
                      /\ lastCall = "true" => callPosted
                      /\ \A i \in 1..Len(posts) : posts[i] = [ bri |-> Clamped(v) ])
    /\ [](<<52, 1>> \in DOMAIN mapping =>
              \A a \in NonNumericArgs :
                  mapping = BrightnessMapping(a) =>
                      lastCall # "raise" /\ posts = <<>> /\ postCount = 0)
    /\ [][ (<<52, 1>> \in DOMAIN mapping /\ callPosted') =>
               \/ UNCHANGED devVars
               \/ /\ posts' = Push(posts, posts'[Len(posts')])
                  /\ postCount' = (postCount + 1) % PostCountMod ]_vars

\* C11 witness: "brightness:999" dispatched once: one post, bri 255
C11_Witness ==
    /\ mapping = BrightnessMapping(<<"9", "9", "9">>)
    /\ lastCall = "true"
    /\ posts = << [ bri |-> 255 ] >>
    /\ postCount = 1

\* C12: a controller whose one action is "cycle" and whose preset list is
\* empty never makes a device call, never moves the cursor and never raises.
C12_EmptyCycleNoCall ==
    (mapping = CycleMapping /\ pattern_presets = <<>>) =>
        /\ posts = <<>> /\ postCount = 0 /\ ~callPosted
        /\ pattern_index = 0
        /\ lastCall # "raise"

\* C12 witness: "cycle" dispatched with the empty list, and returned
C12_Witness ==
    /\ mapping = CycleMapping
    /\ pattern_presets = <<>>
    /\ lastCall = "true"

\* k "cycle" dispatches in a row from cursor index: the cursor at the end
\* and the cursor positions posted, in order
RECURSIVE CycleRun(_, _, _)
CycleRun(presets, index, k) ==
    IF k = 0 THEN [ index |-> index, visited |-> <<>> ]
    ELSE LET o == ApplyCycle(presets, index)
             r == CycleRun(presets, o.index, k - 1)
         IN  [ index |-> r.index, visited |-> << o.index >> \o r.visited ]

\* C13: with n >= 1 presets the cursor is always in 0..n-1; each "cycle"
\* dispatch moves it from c to (c + 1) mod n and posts exactly one state,
\* the preset id at the new position; and n dispatches in a row post every
\* position once and bring the cursor back.
C13_CycleAdvances ==
    /\ [](pattern_presets # <<>> =>
              /\ pattern_index \in 0..(Len(pattern_presets) - 1)
              /\ \E r \in { CycleRun(pattern_presets, pattern_index,
                                      Len(pattern_presets)) } :
                     /\ r.index = pattern_index
                     /\ Len(r.visited) = Len(pattern_presets)
                     /\ { r.visited[i] : i \in 1..Len(r.visited) }
                            = 0..(Len(pattern_presets) - 1))
    /\ []((mapping = CycleMapping /\ pattern_presets # <<>> /\ lastCall = "true")
              => callPosted)
    /\ [][ (mapping = CycleMapping /\ pattern_presets # <<>> /\ callPosted'
                /\ ~UNCHANGED << devVars, pattern_index >>) =>
               /\ pattern_index' = (pattern_index + 1) % Len(pattern_presets)
               /\ posts' = Push(posts, [ ps |-> pattern_presets[pattern_index' + 1] ])
               /\ postCount' = (postCount + 1) % PostCountMod ]_vars

\* C13 witness: presets [1, 2, 3], "cycle" dispatched three times: the cursor
\* is back at 0 and the last two posts are the ids at positions 2 and 0
C13_Witness ==
    /\ mapping = CycleMapping
    /\ pattern_presets = <<1, 2, 3>>
    /\ pattern_index = 0
    /\ posts = << [ ps |-> 3 ], [ ps |-> 1 ] >>
    /\ postCount = 1

---------------------------------------------------------------------------
(* The sky colour and the segments on their own: _get_sky_color and        *)
(* _build_segments applied, as one tick of _loop applies them, to every    *)
(* virtual hour that is a multiple of 1 / HourDen.                         *)

\* keyframe tables: the default; one whose ends differ and that holds the
\* pale night colour at noon; one with a single keyframe
KeyframeTables ==
    { DEFAULT_KEYFRAMES,
      ( 0 :> <<0, 0, 0>> @@ 7 :> <<90, 200, 33>> @@ 12 :> <<180, 180, 200>> @@
        24 :> <<10, 20, 30>> ),
      ( 6 :> <<1, 2, 3>> ) }

VirtualHours == { <<n, HourDen>> : n \in 0..(24 * HourDen) }

\* the controller and the decoder, where they are not run
ControllerUnused ==
    /\ daylight = FALSE
    /\ mapping = LifecycleMapping
    /\ pattern_presets = <<>>
    /\ pattern_index = 0
    /\ running = FALSE
    /\ thread = 0
    /\ cycle_count = 0
    /\ start_time = 0
    /\ loopPc = [t \in Threads |-> "dead"]
    /\ loopElapsed = [t \in Threads |-> 0]
    /\ firstTick = [t \in Threads |-> FALSE]
    /\ tickCycle = [t \in Threads |-> 0]
    /\ callerPc = "unused"
    /\ callerAction = <<>>
    /\ lastCall = "none"
    /\ ranAtEntry = FALSE
    /\ callPosted = FALSE
    /\ lastPostOk = <<>>
    /\ ticksAfterStop = [t \in Threads |-> 0]
    /\ posts = <<>>
    /\ postCount = 0
    /\ now = 0

DecodeUnused ==
    /\ packet = <<>>
    /\ cmd_type = <<>>
    /\ parsed = Rejected
    /\ decodePc = "unused"

controllerVars ==
    << cfgVars, pattern_index, simVars, loopVars, callerPc, callerAction,
       lastCall, ranAtEntry, callPosted, lastPostOk, ticksAfterStop, devVars, now >>

InitSky ==
    /\ keyframes \in KeyframeTables
    /\ virtual_hour \in VirtualHours
    /\ moon_start \in {0, 10}
    /\ moon_length \in {-1, 0, 5}
    /\ sky_color = <<>>
    /\ segments = <<>>
    /\ skyPc = "input"
    /\ ControllerUnused
    /\ DecodeUnused
    /\ ClientUnused

\* sky_color = self._get_sky_color(virtual_hour)
ResolveSky ==
    /\ skyPc = "input"
    /\ sky_color' = GetSkyColor(keyframes, virtual_hour[1], virtual_hour[2])
    /\ skyPc' = "sky"
    /\ UNCHANGED << keyframes, virtual_hour, moon_start, moon_length, segments,
                    controllerVars, decVars, clientVars >>

\* segments = self._build_segments(sky_color, virtual_hour)
BuildTick ==
    /\ skyPc = "sky"
    /\ segments' = BuildSegments(sky_color, virtual_hour[1], virtual_hour[2],
                                 LedCount, moon_start, moon_length)
    /\ skyPc' = "done"
    /\ UNCHANGED << keyframes, virtual_hour, moon_start, moon_length, sky_color,
                    controllerVars, decVars, clientVars >>

NextSky == ResolveSky \/ BuildTick

SpecSky == InitSky /\ [][NextSky]_vars

\* C14: at a virtual hour that is a keyframe hour the resolved colour is that
\* keyframe's stored colour; for the default table the colour at hour 24 and
\* the colour at hour 0 are the same, (40, 40, 100).
C14_KeyframeExact ==
    skyPc \in {"sky", "done"} =>
        /\ \A h \in DOMAIN keyframes :
               virtual_hour[1] = h * virtual_hour[2] => sky_color = keyframes[h]
        /\ (keyframes = DEFAULT_KEYFRAMES
                /\ virtual_hour[1] \in {0, 24 * virtual_hour[2]})
               => sky_color = <<40, 40, 100>>

\* C14 witness: the default table at hour 18, a keyframe between two others
C14_Witness ==
    /\ skyPc = "sky"
    /\ keyframes = DEFAULT_KEYFRAMES
    /\ virtual_hour = << 18 * HourDen, HourDen >>
    /\ sky_color = <<255, 140, 60>>

\* C15: the segments built for hour h and sky colour c: segment 0 spans the
\* whole strip with c; there is a second segment exactly when
\* moon_length > 0, with id 1 over [moon_start, moon_start + moon_length),
\* coloured (180, 180, 200) when h < 5 or h >= 21 and c otherwise; with the
\* default table the pale colour appears at night only.
C15_MoonSegment ==
    skyPc = "done" =>
        LET night == \/ virtual_hour[1] < 5 * virtual_hour[2]
                     \/ virtual_hour[1] >= 21 * virtual_hour[2]
        IN  /\ Len(segments) >= 1
            /\ segments[1].id = 0
            /\ segments[1].start = 0 /\ segments[1].stop = LedCount
            /\ segments[1].col = << sky_color >>
            /\ Len(segments) = (IF moon_length > 0 THEN 2 ELSE 1)
            /\ moon_length > 0 =>
                   /\ segments[2].id = 1
                   /\ segments[2].start = moon_start
                   /\ segments[2].stop = moon_start + moon_length
                   /\ segments[2].col =
                          << IF night THEN <<180, 180, 200>> ELSE sky_color >>
                   /\ (keyframes = DEFAULT_KEYFRAMES
                          /\ segments[2].col = << <<180, 180, 200>> >>) => night

\* C15 witness: hour 5 exactly, the first hour that is not night: the moon
\* segment carries the sky colour
C15_Witness ==
    /\ skyPc = "done"
    /\ keyframes = DEFAULT_KEYFRAMES
    /\ virtual_hour = << 5 * HourDen, HourDen >>
    /\ moon_length = 5
    /\ Len(segments) = 2
    /\ segments[2].col = << <<50, 50, 120>> >>

---------------------------------------------------------------------------
(* WLEDClient.post_state on its own: one call, with every response status  *)
(* tried and a transport error raised by any one call of its try block.    *)

\* the payloads the bridge posts
PostPayloads ==
    { OnPayload, OffPayload, WhitePayload, BaselinePayload, BrightnessPayload(255),
      PresetPayload(1), ColorPayload(255, 0, 128), TickPayload(14 * CycleDuration) }

\* resp.status: around both ends of the 2xx range, and common errors
PostStatuses == {100, 199, 200, 204, 299, 300, 301, 404, 500}

\* the call of the try block that raises: none, HTTPConnection(...),
\* conn.request, conn.getresponse or resp.read
PostFaults == {"none", "connection", "request", "getresponse", "read"}

InitPost ==
    /\ postPayload \in PostPayloads
    /\ postFault \in PostFaults
    /\ postStatus \in PostStatuses
    /\ conn = "unbound"
    /\ postPc = "connection"
    /\ postRet = "none"
    /\ ControllerUnused
    /\ DecodeUnused
    /\ SkyUnused

\* one call of the try block: it raises (to the except clause) or goes on
TryCall(fault, next) ==
    /\ postPc = fault
    /\ postPc' = IF postFault = fault THEN "except" ELSE next

\* conn = http.client.HTTPConnection(host, port, timeout=timeout); when it
\* raises, conn is never bound
PostConnection ==
    /\ TryCall("connection", "request")
    /\ conn' = IF postFault = "connection" THEN "unbound" ELSE "idle"
    /\ UNCHANGED << postPayload, postFault, postStatus, postRet, controllerVars,
                    decVars, skyVars >>

\* conn.request("POST", "/json/state", ...): connects and sends; when it
\* raises, the socket may or may not have been opened
PostRequest ==
    /\ TryCall("request", "getresponse")
    /\ IF postFault = "request"
       THEN conn' \in {"idle", "open"}
       ELSE conn' = "open"
    /\ UNCHANGED << postPayload, postFault, postStatus, postRet, controllerVars,
                    decVars, skyVars >>

\* resp = conn.getresponse()
PostGetResponse ==
    /\ TryCall("getresponse", "read")
    /\ UNCHANGED << postPayload, postFault, postStatus, conn, postRet,
                    controllerVars, decVars, skyVars >>

\* resp.read()
PostRead ==
    /\ TryCall("read", "status")
    /\ UNCHANGED << postPayload, postFault, postStatus, conn, postRet,
                    controllerVars, decVars, skyVars >>

\* (variant) 300 taken for a success
StatusOkThrough300(status) == ~(status < 200 \/ status > 300)

\* the negation of resp.status < 200 or resp.status >= 300
StatusOk(status) == ~(status < 200 \/ status >= 300)

\* the status test: return False or return True, through the finally clause
PostStatus ==
    /\ postPc = "status"
    /\ postRet' = IF StatusOk(postStatus) THEN "true" ELSE "false"
    /\ postPc' = "finally"
    /\ UNCHANGED << postPayload, postFault, postStatus, conn, controllerVars,
                    decVars, skyVars >>

\* except Exception: log, return False, through the finally clause
PostExcept ==
    /\ postPc = "except"
    /\ postRet' = "false"
    /\ postPc' = "finally"
    /\ UNCHANGED << postPayload, postFault, postStatus, conn, controllerVars,
                    decVars, skyVars >>

\* finally: try conn.close() except Exception: pass.  With conn unbound the
\* NameError is swallowed there; then the pending return is made
PostFinally ==
    /\ postPc = "finally"
    /\ conn' = IF conn = "unbound" THEN "unbound" ELSE "closed"
    /\ postPc' = "returned"
    /\ UNCHANGED << postPayload, postFault, postStatus, postRet, controllerVars,
                    decVars, skyVars >>

NextPost ==
    \/ PostConnection
    \/ PostRequest
    \/ PostGetResponse
    \/ PostRead
    \/ PostStatus
    \/ PostExcept
    \/ PostFinally

SpecPost == InitPost /\ [][NextPost]_vars

\* C16: when post_state has returned, it has returned True or False and
\* raised nothing; True exactly when no call raised and the status is in
\* 200..299; and no connection is left open: the one it made is closed.
C16_PostNeverRaises ==
    postPc = "returned" =>
        /\ postRet \in {"true", "false"}
        /\ postRet = "true" <=>
               (postFault = "none" /\ postStatus >= 200 /\ postStatus <= 299)
        /\ conn \in {"closed", "unbound"}
        /\ conn = "unbound" => postFault = "connection"

\* C16 witness: the request was sent and then reading the response raised:
\* False is returned and the connection is closed
C16_Witness ==
    /\ postPc = "returned"
    /\ postFault = "read"
    /\ postStatus = 200
    /\ postRet = "false"
    /\ conn = "closed"

---------------------------------------------------------------------------
(* Further properties of the controller and the simulator, under Spec. *)

\* the full-brightness, segment-0 pure-white state, spelled out
FullWhiteState ==
    [ on |-> TRUE, bri |-> 255,
      seg |-> << [ id |-> 0, col |-> << <<255, 255, 255>> >> ] >> ]

\* C17: with a simulator configured, whenever the pure-white state is posted
\* stop() has already cleared the running flag; the caller posts it from
\* the position after stop() only, and reaches that position only with the
\* flag cleared.
C17_StopBeforeWhite ==
    [][ /\ (daylight /\ Posted(IsWhite)) =>
               /\ ~running /\ ~running'
               /\ callerPc = "post_white"
               /\ posts'[Len(posts')] = FullWhiteState
        /\ (callerPc' = "post_white" /\ callerPc # "post_white") =>
               /\ callerPc = "stop_join"
               /\ ~running' ]_vars

\* C17 witness: "full_white" dispatched right after the constructor's
\* start(): the baseline, then stop(), then the white state posted
C17_Witness ==
    /\ daylight
    /\ callerPc = "idle"
    /\ lastCall = "true"
    /\ ~running
    /\ posts = << BaselinePayload, FullWhiteState >>

\* C18 (as claimed), under SpecDecode: each of the harness's sample packets
\* decodes to address 50 with data 1, 2, 3, and the harness's controller
\* (mapping (50,1) on, (50,2) off, (50,3) cycle, presets [1, 2, 3]) handles
\* it: handle_packet returns True.
C18_HarnessSamplesHandled ==
    \A i \in 1..Len(sample_packets) :
        (decodePc = "done" /\ packet = sample_packets[i] /\ cmd_type = <<>>) =>
            /\ parsed # Rejected
            /\ parsed.address = 50
            /\ parsed.data_field = i
            /\ Returned(HandleOutcome(packet, cmd_type, HarnessMapping, FALSE,
                                      HarnessPresets, 0).ret)

\* this step made a device call on the caller's thread (a loop that posts
\* moves on in _loop)
CallerPosted == ~UNCHANGED devVars /\ loopPc' = loopPc

\* C19: a call makes at most one device post on the caller's thread, with no
\* second attempt; and what the caller does after the post is the same for
\* a post that returned True and one that returned False: a simple action
\* and the post after stop() return True to handle_packet's caller with the
\* simulator untouched, "cycle" leaves the cursor advanced, and start()
\* goes on to set the flag and to launch the loop.
C19_FailureOnlyBoolean ==
    [][ CallerPosted =>
            /\ posts' = Push(posts, posts'[Len(posts')])
            /\ postCount' = (postCount + 1) % PostCountMod
            /\ callerPc # "idle" => ~callPosted
            /\ lastPostOk' \in { <<TRUE>>, <<FALSE>> }
            /\ UNCHANGED << simVars, loopVars >>
            /\ callerPc \in {"idle", "post_off", "post_white"} =>
                   callerPc' = "idle" /\ lastCall' = "true"
            /\ callerPc = "start" =>
                   callerPc' = "start_run" /\ lastCall' = lastCall
            /\ callerPc \notin {"idle", "post_off", "post_white", "start"} => FALSE
            /\ pattern_index' # pattern_index =>
                   /\ pattern_index' = (pattern_index + 1) % Len(pattern_presets)
                   /\ posts'[Len(posts')] = [ ps |-> pattern_presets[pattern_index' + 1] ]
            /\ (mapping = CycleMapping /\ Len(pattern_presets) > 1) =>
                   pattern_index' # pattern_index ]_vars

\* C19 witness: "cycle" dispatched once over [1, 2, 3], the post failed: the
\* call returned True all the same, the cursor is advanced, and there was
\* one post
C19_Witness ==
    /\ mapping = CycleMapping
    /\ pattern_presets = <<1, 2, 3>>
    /\ lastPostOk = << FALSE >>
    /\ lastCall = "true"
    /\ pattern_index = 1
    /\ posts = << [ ps |-> 2 ] >>
    /\ postCount = 1

\* C20: while the running flag stays cleared (no start() has set it again),
\* a loop makes at most one tick post, the one whose check it had passed
\* before, and the next check it makes ends it.
C20_OneTickAfterStop ==
    /\ [](\A t \in Threads : ticksAfterStop[t] <= 1)
    /\ [][ \A t \in Threads :
               /\ (~running /\ loopPc[t] = "check" /\ loopPc'[t] # "check")
                      => loopPc'[t] = "dead"
               /\ (~running /\ loopPc[t] = "post" /\ loopPc'[t] # "post")
                      => loopPc'[t] = "check" /\ ticksAfterStop[t] = 0 ]_vars

\* C20 witness: stop() has cleared the flag, the loop has made the one tick
\* it was in, and is about to make the check that ends it
C20_Witness ==
    /\ ~running
    /\ callerPc = "idle"
    /\ \E t \in Threads : ticksAfterStop[t] = 1 /\ loopPc[t] = "check"

---------------------------------------------------------------------------
(* Properties of the simulator over time, checked under SpecClock. *)

\* the tick of simulated hour 14, spelled out: halfway from the keyframe of
\* hour 12 to that of hour 16, and not night
HourFourteenTick ==
    [ on |-> TRUE,
      seg |-> << [ id |-> 0, start |-> 0, stop |-> 100,
                   col |-> << <<255, 247, 230>> >>, fx |-> 0, on |-> TRUE,
                   sel |-> TRUE ],
                 [ id |-> 1, start |-> 0, stop |-> 5,
                   col |-> << <<255, 247, 230>> >>, fx |-> 0, on |-> TRUE ] >> ]

\* C21: start() on a Stopped simulator posts the baseline with the flag
\* still cleared, sets the flag in a later step that posts nothing, and
\* launches the loop after that, so the baseline precedes Running and every
\* tick of the launched loop; that loop's first tick computes
\* elapsed = 14/24 of cycle_duration (loopElapsed counts 1/24 time units)
\* and posts the state of hour 14, at whatever clock reading the run starts
\* and whatever ran before it.
C21_BaselineThenHour14 ==
    [][ /\ (callerPc' = "start_run" /\ callerPc # "start_run") =>
               /\ callerPc = "start"
               /\ ~running /\ ~running'
               /\ Posted(IsBaseline)
        /\ (running' /\ ~running) =>
               /\ callerPc = "start_run" /\ callerPc' = "start_launch"
               /\ callPosted
               /\ NoPost
        /\ \A t \in Threads :
               /\ (loopPc[t] = "dead" /\ loopPc'[t] # "dead") =>
                      /\ callerPc = "start_launch"
                      /\ running
                      /\ loopPc'[t] = "init"
                      /\ NoPost
               /\ (loopPc'[t] = "post" /\ loopPc[t] # "post") =>
                      loopPc[t] = "check" /\ NoPost
               /\ (firstTick[t] /\ loopPc[t] = "check" /\ loopPc'[t] = "post") =>
                      loopElapsed'[t] = 14 * CycleDuration
               /\ (firstTick[t] /\ loopPc[t] = "post" /\ loopPc'[t] # "post") =>
                      /\ posts' = Push(posts, HourFourteenTick)
                      /\ ~firstTick'[t] ]_vars

\* C21 witness: a restart: an earlier run lasted into its second simulated
\* day, and the loop launched after it, at a later clock reading, has
\* computed its first tick: hour 14
C21_Witness ==
    /\ cycle_count >= 1
    /\ now > 0
    /\ running
    /\ callerPc = "idle"
    /\ \E t \in Threads :
           /\ firstTick[t]
           /\ loopPc[t] = "post"
           /\ loopElapsed[t] = 14 * CycleDuration
           /\ thread = t

\* C22 (as claimed): whenever a tick finds the elapsed simulated time in a
\* later simulated day than the loop's tick before it did (the loop's first
\* tick counts from day 0), that tick raises the stored cycle counter, in
\* every run; stated for the runs with one loop alive, the only ones there
\* should be.
C22_WrapRaisesCounter ==
    [][ \A t \in Threads :
            (Alive = {t} /\ loopPc[t] = "check" /\ loopPc'[t] = "post"
                 /\ loopElapsed'[t] \div (24 * CycleDuration) > tickCycle[t])
                => cycle_count' > cycle_count ]_vars

\* C23: the stored cycle counter never decreases; no step of the caller
\* (start(), stop(), a dispatch) changes it, nor does a loop's start-up or
\* its end: only a tick of a loop does, so the counter is carried from one
\* run into the next.
C23_CounterPersists ==
    [][ /\ cycle_count' >= cycle_count
        /\ callerPc' # callerPc => cycle_count' = cycle_count
        /\ running' # running => cycle_count' = cycle_count
        /\ \A t \in Threads :
               (loopPc'[t] # loopPc[t] /\ loopPc'[t] # "post") =>
                   cycle_count' = cycle_count
        /\ cycle_count' # cycle_count =>
               \E t \in Threads : loopPc[t] = "check" /\ loopPc'[t] = "post" ]_vars

\* C23 witness: a second run, ticking and not yet into its second simulated
\* day, with the counter still at the 1 the first run left
C23_Witness ==
    /\ cycle_count = 1
    /\ running
    /\ callerPc = "idle"
    /\ start_time > 0
    /\ 24 * (now - start_time) + 14 * CycleDuration < 24 * CycleDuration
    /\ \E t \in Threads :
           /\ Alive = {t}
           /\ thread = t
           /\ loopPc[t] = "check"
           /\ ~firstTick[t]

---------------------------------------------------------------------------
(* Frame properties of the dispatch, checked under SpecMixed. *)

\* the actions that start or stop the simulator
SimulatorActions == { A_off, A_full_white, A_daylight_start, A_daylight_stop }

\* C24: the mapping never changes; the cursor changes only in a dispatch of
\* "cycle" with a non-empty preset list (the step posts the preset at the
\* new position), never in a tick, in start() or stop(), for a rejected or
\* unmapped frame or in another action; and a dispatch of any action other
\* than "off", "full_white", "daylight_start" and "daylight_stop" returns
\* without entering start() or stop() and leaves the simulator as it was.
C24_FrameOfDispatch ==
    /\ [](\A k \in DOMAIN mapping :
              \E o \in { ApplyAction(mapping[k], daylight, pattern_presets,
                                      pattern_index) } :
                  /\ (mapping[k] # A_cycle \/ pattern_presets = <<>>)
                         => o.index = pattern_index
                  /\ mapping[k] \notin SimulatorActions => o.pc = "idle")
    /\ [][ /\ mapping' = mapping
           /\ pattern_index' # pattern_index =>
                  /\ callerPc = "idle" /\ callerPc' = "idle"
                  /\ lastCall' = "true"
                  /\ pattern_presets # <<>>
                  /\ \E k \in DOMAIN mapping : mapping[k] = A_cycle
                  /\ posts' = Push(posts, [ ps |-> pattern_presets[pattern_index' + 1] ])
                  /\ loopPc' = loopPc
           /\ (callerPc = "idle" /\ callerPc' = "idle") => UNCHANGED simVars
           /\ (callerPc = "idle" /\ callerPc' # "idle") =>
                  /\ callerAction' \in SimulatorActions
                  /\ UNCHANGED simVars
           /\ running' # running =>
                  /\ callerPc \in {"start_run", "stop"}
                  /\ callerAction \in SimulatorActions \cup { <<>> } ]_vars

\* C24 witness: "cycle" dispatched once while the simulator is Running: the
\* cursor has moved, the simulator is still Running
C24_Witness ==
    /\ mapping = MixedMapping
    /\ running
    /\ Alive # {}
    /\ callerPc = "idle"
    /\ lastCall = "true"
    /\ pattern_index = 1
    /\ posts # <<>>
    /\ posts[Len(posts)] = [ ps |-> 2 ]

---------------------------------------------------------------------------
(* The return value of handle_packet, checked under Spec. *)

\* the packet decodes and the mapping holds an action for its key (the key
\* in plain arithmetic; an empty action string is no action)
DecodableMapped(pkt, ct) ==
    /\ Len(pkt) = 3
    /\ pkt[1] = 254
    /\ (IF ct = <<>> THEN (pkt[2] \div 64) % 4 ELSE ct[1]) \in {2, 3}
    /\ \E key \in { << (pkt[2] % 64) * 2 + pkt[3] \div 128, pkt[3] % 32 >> } :
           key \in DOMAIN mapping /\ mapping[key] # <<>>

\* C25 (as claimed): whenever handle_packet can be called, for every call:
\* when the frame decodes and its key is mapped, apply_action runs and the
\* call returns True (at once, or once the start() or stop() entered has
\* returned), whatever the action and its argument are; otherwise the call
\* returns False at once; and no call has ended in any other way.
C25_TrueIffMapped ==
    /\ lastCall \in {"none", "rejected", "ignored", "true"}
    /\ callerPc = "idle" =>
           \A in \in Inputs :
               \E o \in { HandleOutcome(in[1], in[2], mapping, daylight,
                                        pattern_presets, pattern_index) } :
                   IF DecodableMapped(in[1], in[2])
                   THEN \/ o.ret = "true" /\ Returned(o.ret) /\ o.pc = "idle"
                        \/ o.ret = "none" /\ o.pc \in {"start", "stop"}
                   ELSE /\ o.ret \in {"rejected", "ignored"} /\ ~Returned(o.ret)
                        /\ o.pc = "idle" /\ o.sent = <<>>

====
